---- MODULE Spec2Model ----
(***************************************************************************)
(* PublicAPIFetcher (src/index.py): one session object bound to an API     *)
(* profile, with the operations fetch_data, display_data and get_count.    *)
(* The session is single-threaded; every operation is one atomic step.     *)
(***************************************************************************)
EXTENDS Integers, Sequences, FiniteSets, TLC

VARIABLES api_type, data, op, ret, out, examined

vars == <<api_type, data, op, ret, out, examined>>

(***************************************************************************)
(* Bounds of the model.                                                    *)
(***************************************************************************)
\* longest record array a response body carries
MaxLen == 3
\* largest limit passed to display_data
MaxLimit == 2

(***************************************************************************)
(* Decoded JSON values, as Python objects.  JNull is Python's None.        *)
(* An object is a function from its keys to values.  Numbers are the       *)
(* non-negative integers.  Every record of the module lists its fields in  *)
(* the order the field names first occur in the module, the order TLC      *)
(* keeps them in.                                                          *)
(***************************************************************************)
JNull == [k |-> "null"]
JBool(b) == [k |-> "bool", b |-> b]
JNum(n) == [k |-> "num", n |-> n]
JStr(s) == [k |-> "str", s |-> s]
JArr(a) == [k |-> "arr", a |-> a]
JObj(o) == [k |-> "obj", o |-> o]

\* a response body response.json() cannot decode
Undecodable == [k |-> "undecodable"]

\* the result of an operation: a returned value or a raised exception
Return(v) == [k |-> "return", v |-> v]
Raise(e) == [k |-> "raise", e |-> e]

\* bool(v)
Truthy(v) ==
    CASE v.k = "null" -> FALSE
      [] v.k = "bool" -> v.b
      [] v.k = "num" -> v.n # 0
      [] v.k = "str" -> v.s # ""
      [] v.k = "arr" -> Len(v.a) > 0
      [] v.k = "obj" -> DOMAIN v.o # {}

\* len(v) is defined (otherwise it raises TypeError)
HasLen(v) == v.k \in {"str", "arr", "obj"}

\* len(v)
PyLen(v) ==
    CASE v.k = "str" -> Len(v.s)
      [] v.k = "arr" -> Len(v.a)
      [] v.k = "obj" -> Cardinality(DOMAIN v.o)

\* the keys the model's objects use, in document order
KeyOrder ==
    <<"results", "name", "username", "email", "address", "location", "city",
      "country", "first", "last", "symbol", "current_price", "market_cap">>

\* what iterating v yields: the elements of a list, the keys of a dict,
\* the characters of a str
Items(v) ==
    CASE v.k = "arr" -> v.a
      [] v.k = "obj" ->
           LET keep(key) == key \in DOMAIN v.o
               ks == SelectSeq(KeyOrder, keep)
           IN  [i \in 1..Len(ks) |-> JStr(ks[i])]
      [] v.k = "str" -> [i \in 1..Len(v.s) |-> JStr(SubSeq(v.s, i, i))]

\* d.get(key): the default forgotten, None for a missing key
Get_NoDefault(d, key, default) == IF key \in DOMAIN d.o THEN d.o[key] ELSE JNull

\* d.get(key, default) on a dict d
Get(d, key, default) == IF key \in DOMAIN d.o THEN d.o[key] ELSE default

(***************************************************************************)
(* The profile registry.                                                   *)
(***************************************************************************)
APIS == {"jsonplaceholder", "randomuser", "coingecko"}


(***************************************************************************)
(* Inputs: the records and response bodies a server may send.              *)
(***************************************************************************)
\* the dicts whose keys are a subset of DOMAIN choice, key c holding one of
\* the values choice[c]
DictsOver(choice) ==
    LET all == UNION {choice[c] : c \in DOMAIN choice}
    IN  {JObj(f) : f \in UNION {{g \in [K -> all] : \A c \in K : g[c] \in choice[c]} :
                                K \in SUBSET DOMAIN choice}}

\* every sequence over S of length at most n
SeqsUpTo(S, n) == UNION {[1..m -> S] : m \in 0..n}

\* records of the jsonplaceholder shape, fields present, absent or malformed
UserRecords ==
    DictsOver([name |-> {JStr("Leanne Graham")},
               username |-> {JStr("Bret")},
               email |-> {JStr("a@b.com")},
               address |-> {JNull, JObj(<<>>),
                            JObj([city |-> JStr("Gwenborough")])}])

\* records of the randomuser shape
RandomUserRecords ==
    DictsOver([name |-> {JNull, JObj(<<>>),
                         JObj([first |-> JStr("Ann")]),
                         JObj([last |-> JStr("Doe")]),
                         JObj([first |-> JStr(""), last |-> JStr("")])},
               email |-> {JStr("a@b.com")},
               location |-> {JObj(<<>>), JObj([city |-> JStr("Sydney")])}])

\* records of the coingecko shape
CryptoRecords ==
    DictsOver([name |-> {JStr("Bitcoin")},
               symbol |-> {JStr("btc"), JNull},
               current_price |-> {JNum(43250), JStr("n/a")},
               market_cap |-> {JNum(850000000)}])

\* one complete record of each profile
FullRecord ==
    [jsonplaceholder |->
        JObj([name |-> JStr("Leanne Graham"), username |-> JStr("Bret"),
              email |-> JStr("a@b.com"), address |-> JObj([city |-> JStr("Sydney")])]),
     randomuser |->
        JObj([name |-> JObj([first |-> JStr("Ann"), last |-> JStr("Doe")]),
              email |-> JStr("a@b.com"),
              location |-> JObj([city |-> JStr("Sydney"),
                                 country |-> JStr("Australia")])]),
     coingecko |->
        JObj([name |-> JStr("Bitcoin"), symbol |-> JStr("btc"),
              current_price |-> JNum(43250), market_cap |-> JNum(850000000)])]

\* the records the multi-record bodies are built from: the complete one, one
\* that renders and has no name, and one whose rendering raises
CoreRecords ==
    [a \in APIS |->
        {FullRecord[a]} \cup
        CASE a = "jsonplaceholder" ->
               {JObj([username |-> JStr("Bret"),
                      address |-> JObj([city |-> JStr("Gwenborough")])]),
                JObj([name |-> JStr("Leanne Graham"), address |-> JNull])}
          [] a = "randomuser" ->
               {JObj([email |-> JStr("a@b.com")]), JObj([name |-> JNull])}
          [] a = "coingecko" ->
               {JObj([symbol |-> JStr("eth")]),
                JObj([name |-> JStr("Bitcoin"), symbol |-> JNull])}]

ShapeRecords ==
    [jsonplaceholder |-> UserRecords, randomuser |-> RandomUserRecords,
     coingecko |-> CryptoRecords]

\* the record lists: up to MaxLen core records, one record of any shape, or
\* one element that is no mapping
RecordLists ==
    [a \in APIS |-> {JArr(s) : s \in SeqsUpTo(CoreRecords[a], MaxLen)}
                    \cup {JArr(<<r>>) : r \in ShapeRecords[a] \cup {JNum(7)}}]

\* decoded bodies that are no array
OtherJson ==
    {JNull, JBool(FALSE), JNum(0), JNum(5), JStr(""), JStr("ab"), JObj(<<>>),
     JObj([name |-> JStr("x"), email |-> JStr("y")])}

\* the bodies a 200 response may carry; randomuser wraps its list in an
\* envelope under the key "results"
Bodies ==
    [a \in APIS |->
        IF a = "randomuser"
        THEN {JObj([results |-> v]) : v \in RecordLists[a] \cup OtherJson}
             \cup OtherJson
             \cup {JArr(s) : s \in SeqsUpTo(CoreRecords[a], 1)}
             \cup {Undecodable}
        ELSE RecordLists[a] \cup OtherJson \cup {Undecodable}]

\* the bodies a response of another status may carry
FewBodies ==
    [a \in APIS |->
        LET list == JArr(<<FullRecord[a]>>)
        IN  {Undecodable, JObj(<<>>),
             IF a = "randomuser" THEN JObj([results |-> list]) ELSE list}]

\* the HTTP statuses the model's server answers with, beside 200
OtherStatuses == {101, 204, 300, 404, 500}

\* a 1xx, 204 or 304 response carries no body, so response.json() fails on it
Bodiless(status) == status \in 100..199 \/ status \in {204, 304}


(***************************************************************************)
(* Python string operations the formatters use.                            *)
(***************************************************************************)
\* str(v), as an f-string renders a field value; the model's field values
\* are strings, numbers, None and booleans
PyStr(v) ==
    CASE v.k = "str" -> v.s
      [] v.k = "num" -> ToString(v.n)
      [] v.k = "null" -> "None"
      [] v.k = "bool" -> IF v.b THEN "True" ELSE "False"

RECURSIVE LStrip(_)
LStrip(s) ==
    IF s # "" /\ SubSeq(s, 1, 1) = " " THEN LStrip(SubSeq(s, 2, Len(s))) ELSE s

RECURSIVE RStrip(_)
RStrip(s) ==
    IF s # "" /\ SubSeq(s, Len(s), Len(s)) = " "
    THEN RStrip(SubSeq(s, 1, Len(s) - 1)) ELSE s

\* s.strip()
Strip(s) == RStrip(LStrip(s))

LowerCase == "abcdefghijklmnopqrstuvwxyz"
UpperCase == "ABCDEFGHIJKLMNOPQRSTUVWXYZ"

RECURSIVE Upper(_)
\* s.upper()
Upper(s) ==
    IF s = "" THEN ""
    ELSE LET c == SubSeq(s, 1, 1)
             at == {i \in 1..Len(LowerCase) : SubSeq(LowerCase, i, i) = c}
             u == IF at = {} THEN c
                  ELSE LET i == CHOOSE j \in at : TRUE IN SubSeq(UpperCase, i, i)
         IN  u \o Upper(SubSeq(s, 2, Len(s)))

\* s.startswith(prefix)
StartsWith(s, prefix) ==
    Len(s) >= Len(prefix) /\ SubSeq(s, 1, Len(prefix)) = prefix

\* sub in s, for strings
Contains(s, sub) ==
    \E i \in 1..(Len(s) - Len(sub) + 1) : SubSeq(s, i, i + Len(sub) - 1) = sub

\* n % 1000 as three digits
Pad3(n) ==
    IF n < 10 THEN "00" \o ToString(n)
    ELSE IF n < 100 THEN "0" \o ToString(n) ELSE ToString(n)

RECURSIVE Grouped(_)
\* format(n, ",") of a non-negative integer: thousands separators
Grouped(n) ==
    IF n < 1000 THEN ToString(n)
    ELSE Grouped(n \div 1000) \o "," \o Pad3(n % 1000)

\* n copies of the string c
RECURSIVE Times(_, _)
Times(c, n) == IF n = 0 THEN "" ELSE c \o Times(c, n - 1)

\* isinstance(v, (int, float)); bool is a subclass of int
IsNumber(v) == v.k \in {"num", "bool"}
NumberOf(v) == IF v.k = "bool" THEN (IF v.b THEN 1 ELSE 0) ELSE v.n

(***************************************************************************)
(* The per-profile formatters: the lines of the block they print, or the   *)
(* exception they raise.  Each computes every field before it prints, so a *)
(* raising formatter prints nothing.                                       *)
(***************************************************************************)
NA == JStr("N/A")
EmptyDict == JObj(<<>>)

_display_user(idx, user) ==
    IF user.k # "obj" THEN Raise("AttributeError")
    ELSE LET name == Get(user, "name", NA)
             username == Get(user, "username", NA)
             email == Get(user, "email", NA)
             address == Get(user, "address", EmptyDict)
         IN  IF address.k # "obj" THEN Raise("AttributeError")
             ELSE Return(<<"User " \o ToString(idx) \o ":",
                           "Name: " \o PyStr(name),
                           "Username: " \o PyStr(username),
                           "Email: " \o PyStr(email),
                           "City: " \o PyStr(Get(address, "city", NA)),
                           Times("-", 24)>>)

_display_random_user(idx, user) ==
    IF user.k # "obj" THEN Raise("AttributeError")
    ELSE LET name_obj == Get(user, "name", EmptyDict)
             email == Get(user, "email", NA)
             location == Get(user, "location", EmptyDict)
         IN  IF name_obj.k # "obj" \/ location.k # "obj" THEN Raise("AttributeError")
             ELSE LET joined == Strip(PyStr(Get(name_obj, "first", JStr(""))) \o " "
                                      \o PyStr(Get(name_obj, "last", JStr(""))))
                      name == IF joined = "" THEN "N/A" ELSE joined
                  IN  Return(<<"User " \o ToString(idx) \o ":",
                                "Name: " \o name,
                                "Email: " \o PyStr(email),
                                "City: " \o PyStr(Get(location, "city", NA)),
                                "Country: " \o PyStr(Get(location, "country", NA)),
                                Times("-", 24)>>)

_display_crypto(idx, crypto) ==
    IF crypto.k # "obj" THEN Raise("AttributeError")
    ELSE LET name == Get(crypto, "name", NA)
             symbol == Get(crypto, "symbol", NA)
             price == Get(crypto, "current_price", JNum(0))
             market_cap == Get(crypto, "market_cap", JNum(0))
         IN  IF symbol.k # "str" THEN Raise("AttributeError")
             ELSE Return(<<"Crypto " \o ToString(idx) \o ":",
                           "Name: " \o PyStr(name),
                           "Symbol: " \o Upper(symbol.s),
                           IF IsNumber(price)
                           THEN "Current Price: $" \o Grouped(NumberOf(price)) \o ".00"
                           ELSE "Price: " \o PyStr(price),
                           IF IsNumber(market_cap)
                           THEN "Market Cap: $" \o Grouped(NumberOf(market_cap))
                           ELSE "Market Cap: " \o PyStr(market_cap),
                           Times("-", 24)>>)

\* the dispatch on the profile in display_data
Render(api, idx, record) ==
    CASE api = "jsonplaceholder" -> _display_user(idx, record)
      [] api = "randomuser" -> _display_random_user(idx, record)
      [] api = "coingecko" -> _display_crypto(idx, record)

(***************************************************************************)
(* The predicates display_data is called with.                             *)
(***************************************************************************)
\* main's city_filter: the city starts with "S"
city_filter(user) ==
    IF user.k # "obj" THEN Raise("AttributeError")
    ELSE LET address == Get(user, "address", EmptyDict)
         IN  IF address.k # "obj" THEN Raise("AttributeError")
             ELSE LET city == Get(address, "city", JStr(""))
                  IN  IF city.k # "str" THEN Raise("AttributeError")
                      ELSE Return(JBool(StartsWith(city.s, "S")))

Filters == {"none", "city_filter", "has_name", "reject_all"}

\* filter_func(record) for a supplied predicate:
\* has_name is  lambda r: "name" in r,  reject_all is  lambda r: False
filter_func(f, record) ==
    CASE f = "city_filter" -> city_filter(record)
      [] f = "reject_all" -> Return(JBool(FALSE))
      [] f = "has_name" ->
           CASE record.k = "obj" -> Return(JBool("name" \in DOMAIN record.o))
             [] record.k = "str" -> Return(JBool(Contains(record.s, "name")))
             [] record.k = "arr" ->
                  Return(JBool(\E i \in 1..Len(record.a) : record.a[i] = JStr("name")))
             [] OTHER -> Raise("TypeError")


(***************************************************************************)
(* Console output: a sequence of events, each the lines one print group    *)
(* writes.  idx is the record index of a block or warning, the record      *)
(* count of a success message, the status code of an HTTP error.           *)
(***************************************************************************)
Event(t, idx, lines) == [idx |-> idx, t |-> t, lines |-> lines]

Names ==
    [jsonplaceholder |-> "JSONPlaceholder Users API",
     randomuser |-> "Random User Generator API",
     coingecko |-> "CoinGecko Cryptocurrency API"]

Fetching(api) == Event("fetching", 0, <<"Fetching data from " \o Names[api] \o "...">>)
NoData == Event("nodata", 0, <<"No data available. Please fetch data first.">>)
NoMatch == Event("nomatch", 0, <<"No records matched the filter criteria.">>)
\* the interpreter's message text is stood for by the exception's class
Warning(idx, e) ==
    Event("warning", idx,
          <<"Warning: Error processing record " \o ToString(idx) \o ": " \o e,
            Times("-", 50)>>)

(***************************************************************************)
(* fetch_data.  A request is what requests.get and the server do:          *)
(* outcome "timeout", "connection", "transport" (any other                 *)
(* RequestException), or "response" with a status and a body.              *)
(***************************************************************************)
Request(outcome, status, body) == [status |-> status, outcome |-> outcome, body |-> body]

\* response.raise_for_status()
raise_for_status(status) == status >= 400 /\ status < 600

\* the record list taken from the decoded body: the list, or the exception
\* .get raises on a body that is no dict
extract(api, json_data) ==
    IF api = "randomuser"
    THEN IF json_data.k = "obj" THEN Return(Get(json_data, "results", JArr(<<>>)))
         ELSE Raise("AttributeError")
    ELSE Return(json_data)

\* a failure handler that resets the store to an empty list
Failed_StoresEmpty(api, old, idx, message) ==
    [data |-> JArr(<<>>), ret |-> Return(JBool(FALSE)),
     out |-> <<Fetching(api), Event("error", idx, <<message>>)>>]

\* a failure handler that unsets the store
Failed_Unsets(api, old, idx, message) ==
    [data |-> JNull, ret |-> Return(JBool(FALSE)),
     out |-> <<Fetching(api), Event("error", idx, <<message>>)>>]

\* a handled failure: the message, False, and the store as it was
Failed(api, old, idx, message) ==
    [data |-> old, ret |-> Return(JBool(FALSE)),
     out |-> <<Fetching(api), Event("error", idx, <<message>>)>>]

\* the body of fetch_data: the new store, the result and the output
fetch_data(api, old, req) ==
    CASE req.outcome = "timeout" ->
           Failed(api, old, 0, "Error: Request timed out. Please check your internet connection.")
      [] req.outcome = "connection" ->
           Failed(api, old, 0, "Error: Failed to connect to the API. Please check your internet connection.")
      [] req.outcome = "transport" ->
           Failed(api, old, 0, "Error: An error occurred while fetching data")
      [] req.outcome = "response" ->
           IF raise_for_status(req.status)
           THEN Failed(api, old, req.status, "Error: HTTP error occurred")
           ELSE IF req.body = Undecodable
           THEN Failed(api, old, 0, "Error: Failed to parse JSON response")
           ELSE LET got == extract(api, req.body)
                IN  IF got.k = "raise"
                    THEN [data |-> old, ret |-> got, out |-> <<Fetching(api)>>]
                    ELSE IF HasLen(got.v)
                    THEN [data |-> got.v, ret |-> Return(JBool(TRUE)),
                          out |-> <<Fetching(api),
                                    Event("fetched", PyLen(got.v),
                                          <<"Successfully fetched " \o ToString(PyLen(got.v))
                                            \o " records.">>)>>]
                    ELSE [data |-> got.v, ret |-> Raise("TypeError"),
                          out |-> <<Fetching(api)>>]

(***************************************************************************)
(* display_data.  limit is None or a number; f names the predicate.        *)
(***************************************************************************)
\* the loop with one slip, named by bug:
\*   "break_on_error"  the except branch ends the loop instead of continuing
\*   "count_errors"    a record whose rendering raised counts as displayed
\*   "label_by_count"  a block is labelled with its position among the
\*                     displayed records, not its index in the store
RECURSIVE LoopBug(_, _, _, _, _, _, _, _)
LoopBug(bug, api, items, limit, f, i, displayed_count, printed) ==
    IF i > Len(items)
    THEN [out |-> printed, examined |-> Len(items), displayed_count |-> displayed_count]
    ELSE LET record == items[i]
             keep == IF f = "none" THEN Return(JBool(TRUE)) ELSE filter_func(f, record)
             label == IF bug = "label_by_count" THEN displayed_count + 1 ELSE i
             block == Render(api, label, record)
             failed == keep.k = "raise" \/ (Truthy(keep.v) /\ block.k = "raise")
             event == IF failed THEN Warning(i, IF keep.k = "raise" THEN keep.e ELSE block.e)
                      ELSE Event("block", i, block.v)
             count == IF failed /\ bug # "count_errors" THEN displayed_count
                      ELSE displayed_count + 1
         IN  IF ~failed /\ ~Truthy(keep.v)
             THEN LoopBug(bug, api, items, limit, f, i + 1, displayed_count, printed)
             ELSE IF (failed /\ bug = "break_on_error")
                     \/ (~failed /\ Truthy(limit) /\ count >= limit.n)
             THEN [out |-> Append(printed, event), examined |-> i,
                   displayed_count |-> count]
             ELSE LoopBug(bug, api, items, limit, f, i + 1, count, Append(printed, event))

Loop_BreakOnError(api, items, limit, f, i, displayed_count, printed) ==
    LoopBug("break_on_error", api, items, limit, f, i, displayed_count, printed)

Loop_CountsErrors(api, items, limit, f, i, displayed_count, printed) ==
    LoopBug("count_errors", api, items, limit, f, i, displayed_count, printed)

Loop_LabelsByCount(api, items, limit, f, i, displayed_count, printed) ==
    LoopBug("label_by_count", api, items, limit, f, i, displayed_count, printed)

\* the for loop from record i on: the output, the displayed count and the
\* number of records examined
RECURSIVE Loop(_, _, _, _, _, _, _)
Loop(api, items, limit, f, i, displayed_count, printed) ==
    IF i > Len(items)
    THEN [out |-> printed, examined |-> Len(items), displayed_count |-> displayed_count]
    ELSE LET record == items[i]
             keep == IF f = "none" THEN Return(JBool(TRUE)) ELSE filter_func(f, record)
         IN  IF keep.k = "raise"
             THEN Loop(api, items, limit, f, i + 1, displayed_count,
                       Append(printed, Warning(i, keep.e)))
             ELSE IF ~Truthy(keep.v)
             THEN Loop(api, items, limit, f, i + 1, displayed_count, printed)
             ELSE LET block == Render(api, i, record)
                  IN  IF block.k = "raise"
                      THEN Loop(api, items, limit, f, i + 1, displayed_count,
                                Append(printed, Warning(i, block.e)))
                      ELSE IF Truthy(limit) /\ displayed_count + 1 >= limit.n
                      THEN [out |-> Append(printed, Event("block", i, block.v)),
                            examined |-> i, displayed_count |-> displayed_count + 1]
                      ELSE Loop(api, items, limit, f, i + 1, displayed_count + 1,
                                Append(printed, Event("block", i, block.v)))

\* the body of display_data: the result, the output and the records examined
display_data(api, store, limit, f) ==
    IF ~Truthy(store)
    THEN [ret |-> Return(JNull), out |-> <<NoData>>, examined |-> 0]
    ELSE IF ~HasLen(store)
    THEN [ret |-> Raise("TypeError"), out |-> <<>>, examined |-> 0]
    ELSE LET r == Loop(api, Items(store), limit, f, 1, 0, <<>>)
         IN  [ret |-> Return(JNull),
              out |-> IF r.displayed_count = 0 THEN Append(r.out, NoMatch) ELSE r.out,
              examined |-> r.examined]

\* get_count
get_count(store) ==
    IF Truthy(store)
    THEN IF HasLen(store) THEN Return(JNum(PyLen(store))) ELSE Raise("TypeError")
    ELSE Return(JNum(0))

(***************************************************************************)
(* The session as a state machine.  op records the last call and its       *)
(* arguments, ret its result, out what it printed, examined how many       *)
(* records its loop looked at.                                             *)
(***************************************************************************)
Call(name, req, limit, f) == [f |-> f, name |-> name, req |-> req, limit |-> limit]
NoRequest == Request("none", 0, Undecodable)

\* __init__ with a valid api_type
Init ==
    /\ api_type \in APIS
    /\ data = JNull
    /\ op = Call("init", NoRequest, JNull, "none")
    /\ ret = Return(JNull)
    /\ out = <<>>
    /\ examined = 0

Fetch(req) ==
    LET r == fetch_data(api_type, data, req)
    IN  /\ data' = r.data
        /\ ret' = r.ret
        /\ out' = r.out
        /\ op' = Call("fetch", req, JNull, "none")
        /\ examined' = 0
        /\ UNCHANGED api_type

FetchTimeout == Fetch(Request("timeout", 0, Undecodable))

FetchConnectionError == Fetch(Request("connection", 0, Undecodable))

FetchRequestException == Fetch(Request("transport", 0, Undecodable))

FetchResponse ==
    \/ \E body \in Bodies[api_type] : Fetch(Request("response", 200, body))
    \/ \E status \in OtherStatuses :
          \E body \in IF Bodiless(status) THEN {Undecodable} ELSE FewBodies[api_type] :
             Fetch(Request("response", status, body))

Limits == {JNull} \cup {JNum(n) : n \in 0..MaxLimit}

DisplayData ==
    \E limit \in Limits, f \in Filters :
       LET r == display_data(api_type, data, limit, f)
       IN  /\ ret' = r.ret
           /\ out' = r.out
           /\ examined' = r.examined
           /\ op' = Call("display", NoRequest, limit, f)
           /\ UNCHANGED <<api_type, data>>

GetCount ==
    /\ ret' = get_count(data)
    /\ out' = <<>>
    /\ examined' = 0
    /\ op' = Call("count", NoRequest, JNull, "none")
    /\ UNCHANGED <<api_type, data>>

Next ==
    \/ FetchTimeout
    \/ FetchConnectionError
    \/ FetchRequestException
    \/ FetchResponse
    \/ DisplayData
    \/ GetCount

Spec == Init /\ [][Next]_vars


(***************************************************************************)
(* Vocabulary of the properties.                                           *)
(***************************************************************************)
True == Return(JBool(TRUE))
False == Return(JBool(FALSE))

\* the last call was display_data(limit, filter_func = f)
Displayed(limit, f) == op.name = "display" /\ op.limit = limit /\ op.f = f

\* the store is a list whose elements are all mappings
IsRecordList(v) == v.k = "arr" /\ \A i \in 1..Len(v.a) : v.a[i].k = "obj"

\* the j-th smallest element of a set of numbers
Nth(S, j) == CHOOSE i \in S : Cardinality({x \in S : x <= i}) = j

Min(a, b) == IF a <= b THEN a ELSE b

IsBlock(e) == e.t = "block"
IsBlockOrWarning(e) == e.t \in {"block", "warning"}

\* the stored records, 1-based, that a formatter renders without raising
Renderable == {i \in 1..PyLen(data) : Render(api_type, i, Items(data)[i]).k = "return"}

(***************************************************************************)
(* C1: fetch_data never raises past its caller: whatever the request's     *)
(* outcome and the decoded body's shape, it returns True or False.         *)
(* Stated as written; the code violates it.                                *)
(***************************************************************************)
C1_FetchNeverRaises == op.name = "fetch" => ret \in {True, False}

(***************************************************************************)
(* C2, as written: after a fetch_data that fails the store is unset and a  *)
(* following display_data prints the "no data available" notice and no     *)
(* block, also when an earlier fetch had succeeded.  Read on the sessions  *)
(* whose store is unset or a list of mappings, and by what display_data    *)
(* then shows.                                                             *)
(***************************************************************************)
C2_FailedFetchUnsetsStore ==
    (op.name = "fetch" /\ ret = False /\ (data = JNull \/ IsRecordList(data))) =>
        \A limit \in Limits, f \in Filters :
           display_data(api_type, data, limit, f).out = <<NoData>>

(***************************************************************************)
(* C2, amended: a fetch_data that fails on a session whose store is unset  *)
(* leaves it unset, and a following display_data prints the "no data       *)
(* available" notice and no block.                                         *)
(***************************************************************************)
C2_FailedFetchKeepsStoreUnset ==
    [][(op'.name = "fetch" /\ ret' = False /\ data = JNull) =>
          /\ data' = JNull
          /\ \A limit \in Limits, f \in Filters :
                LET r == display_data(api_type', data', limit, f)
                IN  r.out = <<NoData>> /\ r.examined = 0]_vars

C2_Witness ==
    /\ op.name = "fetch" /\ op.req.outcome = "response" /\ op.req.status = 500
    /\ ret = False /\ data = JNull

(***************************************************************************)
(* C3: after a fetch that reports success the store is a finite sequence   *)
(* whose elements are all mappings; a decoded body of another shape is     *)
(* never stored.  Stated as written; the code violates it.                 *)
(***************************************************************************)
C3_StoreIsRecordList == (op.name = "fetch" /\ ret = True) => IsRecordList(data)

(***************************************************************************)
(* C4: a response whose status is outside 200..299 makes fetch_data return *)
(* False and store nothing.  Stated as written; the code violates it.      *)
(***************************************************************************)
C4_NonSuccessStatusFails ==
    (op.name = "fetch" /\ op.req.outcome = "response"
     /\ op.req.status \notin 200..299) => ret = False

(***************************************************************************)
(* C5, as written: display_data() with no predicate and no limit over n >= *)
(* 1 stored records prints exactly n blocks, the i-th labelled i, and no   *)
(* warning.  Read on the stores that are a list of mappings.               *)
(***************************************************************************)
C5_OneBlockPerRecord ==
    (Displayed(JNull, "none") /\ IsRecordList(data) /\ PyLen(data) >= 1) =>
        /\ Len(out) = PyLen(data)
        /\ \A i \in 1..Len(out) : out[i].t = "block" /\ out[i].idx = i

(***************************************************************************)
(* C5, amended: display_data() with no predicate and no limit over n >= 1  *)
(* stored records examines all n in order and prints, for the i-th, its    *)
(* block labelled i when its rendering does not raise and a warning naming *)
(* i when it does.                                                         *)
(***************************************************************************)
C5_OneBlockOrWarningPerRecord ==
    (Displayed(JNull, "none") /\ HasLen(data) /\ PyLen(data) >= 1) =>
        LET items == Items(data)
            evs == SelectSeq(out, IsBlockOrWarning)
        IN  /\ ret = Return(JNull)
            /\ examined = Len(items)
            /\ Len(evs) = Len(items)
            /\ \A i \in 1..Len(evs) :
                  LET r == Render(api_type, i, items[i])
                  IN  IF r.k = "return" THEN evs[i] = Event("block", i, r.v)
                      ELSE evs[i].t = "warning" /\ evs[i].idx = i

C5_Witness ==
    /\ Displayed(JNull, "none") /\ IsRecordList(data) /\ Len(out) = 3
    /\ out[1].t = "block" /\ out[2].t = "warning" /\ out[3].t = "block"

(***************************************************************************)
(* C6, as written: display_data(limit = k) with no predicate and 1 <= k <  *)
(* n prints exactly the blocks of the first k stored records and stops     *)
(* after the k-th.  Read on the stores that are a list of mappings.        *)
(***************************************************************************)
C6_FirstKRecords ==
    \A k \in 1..MaxLimit :
       (Displayed(JNum(k), "none") /\ IsRecordList(data) /\ k < PyLen(data)) =>
           /\ Len(out) = k
           /\ \A i \in 1..Len(out) : out[i].t = "block" /\ out[i].idx = i
           /\ examined = k

(***************************************************************************)
(* C6, amended: display_data(limit = k) with no predicate and 1 <= k < n   *)
(* prints the blocks of the first k stored records whose rendering does    *)
(* not raise (of all of them when fewer than k render), each labelled with *)
(* its index in the store, and stops right after the k-th block; a record  *)
(* whose rendering raises gets a warning and does not count.               *)
(***************************************************************************)
C6_FirstKRenderedRecords ==
    \A k \in 1..MaxLimit :
       (Displayed(JNum(k), "none") /\ HasLen(data) /\ k < PyLen(data)) =>
           LET blocks == SelectSeq(out, IsBlock)
               m == Min(k, Cardinality(Renderable))
           IN  /\ Len(blocks) = m
               /\ \A j \in 1..Len(blocks) :
                     LET i == Nth(Renderable, j)
                     IN  blocks[j] = Event("block", i, Render(api_type, i, Items(data)[i]).v)
               /\ examined = IF Cardinality(Renderable) >= k THEN Nth(Renderable, k)
                             ELSE PyLen(data)
               /\ \A j \in 1..Len(out) : out[j].t = "warning" => out[j].idx <= examined

C6_Witness ==
    /\ Displayed(JNum(1), "none") /\ IsRecordList(data) /\ PyLen(data) = 3
    /\ Len(out) = 2 /\ out[1].t = "warning" /\ out[2].t = "block" /\ out[2].idx = 2
    /\ examined = 2


(***************************************************************************)
(* C7.  A record is well kinded when it is a mapping whose nested address, *)
(* name and location values, where present, are mappings and whose symbol, *)
(* where present, is a string.  PlaceholderLines are the lines a block     *)
(* must carry for the expected keys the record lacks, as <<line, text>>.   *)
(***************************************************************************)
WellKinded(api, r) ==
    /\ r.k = "obj"
    /\ \A key \in DOMAIN r.o :
          /\ (api = "jsonplaceholder" /\ key = "address") => r.o[key].k = "obj"
          /\ (api = "randomuser" /\ key \in {"name", "location"}) => r.o[key].k = "obj"
          /\ (api = "coingecko" /\ key = "symbol") => r.o[key].k = "str"

\* key is missing from r, or sub is missing from the mapping under key
Lacks(r, key, sub) == key \notin DOMAIN r.o \/ sub \notin DOMAIN r.o[key].o

TopLevelLines(r, fields) ==
    {<<fields[key][1], fields[key][2]>> : key \in {x \in DOMAIN fields : x \notin DOMAIN r.o}}

\* the name line of randomuser as the claim words it: N/A when a part of
\* the name is missing
NameLineAsWritten(r) ==
    IF Lacks(r, "name", "first") \/ Lacks(r, "name", "last")
    THEN {<<2, "Name: N/A">>} ELSE {}

\* the name line of randomuser as amended: the trimmed join of the parts
\* present, N/A when that is empty
NameLineAmended(r) ==
    LET part(sub) == IF Lacks(r, "name", sub) THEN "" ELSE PyStr(r.o["name"].o[sub])
        joined == Strip(part("first") \o " " \o part("last"))
    IN  IF Lacks(r, "name", "first") \/ Lacks(r, "name", "last")
        THEN {<<2, "Name: " \o (IF joined = "" THEN "N/A" ELSE joined)>>} ELSE {}

PlaceholderLines(api, r, nameLine) ==
    CASE api = "jsonplaceholder" ->
           TopLevelLines(r, [name |-> <<2, "Name: N/A">>,
                             username |-> <<3, "Username: N/A">>,
                             email |-> <<4, "Email: N/A">>])
           \cup (IF Lacks(r, "address", "city") THEN {<<5, "City: N/A">>} ELSE {})
      [] api = "randomuser" ->
           nameLine
           \cup TopLevelLines(r, [email |-> <<3, "Email: N/A">>])
           \cup (IF Lacks(r, "location", "city") THEN {<<4, "City: N/A">>} ELSE {})
           \cup (IF Lacks(r, "location", "country") THEN {<<5, "Country: N/A">>} ELSE {})
      [] api = "coingecko" ->
           TopLevelLines(r, [name |-> <<2, "Name: N/A">>,
                             symbol |-> <<3, "Symbol: N/A">>,
                             current_price |-> <<4, "Current Price: $0.00">>,
                             market_cap |-> <<5, "Market Cap: $0">>])

\* every well-kinded stored record that lacks an expected key was printed
\* as a full block, labelled with its index, the lines given by placeholders
\* in the missing fields' positions
MissingKeysRendered(placeholders(_)) ==
    \A i \in 1..PyLen(data) :
       LET r == Items(data)[i]
       IN  (WellKinded(api_type, r) /\ placeholders(r) # {}) =>
              \E j \in 1..Len(out) :
                 /\ out[j].t = "block" /\ out[j].idx = i /\ Len(out[j].lines) = 6
                 /\ \A p \in placeholders(r) : out[j].lines[p[1]] = p[2]

(***************************************************************************)
(* C7, as written: for every profile a stored record that lacks an         *)
(* expected key at any nesting level is rendered as a full block with      *)
(* "N/A" in the missing field's position (0 for current_price and          *)
(* market_cap).  Read on the well-kinded records.                          *)
(***************************************************************************)
C7_MissingKeyRendersNA ==
    (Displayed(JNull, "none") /\ data.k = "arr" /\ PyLen(data) >= 1) =>
        LET asWritten(r) == PlaceholderLines(api_type, r, NameLineAsWritten(r))
        IN  MissingKeysRendered(asWritten)

(***************************************************************************)
(* C7, amended: for every profile a stored well-kinded record that lacks   *)
(* an expected key is rendered as a full block and counted as displayed,   *)
(* with "N/A" in the missing field's position (0 for current_price and     *)
(* market_cap), except that a missing name.first or name.last of           *)
(* randomuser leaves the name line the trimmed other part, "N/A" only when *)
(* nothing is left.                                                        *)
(***************************************************************************)
C7_MissingKeyRendersPlaceholder ==
    (Displayed(JNull, "none") /\ data.k = "arr" /\ PyLen(data) >= 1) =>
        LET amended(r) == PlaceholderLines(api_type, r, NameLineAmended(r))
        IN  /\ MissingKeysRendered(amended)
            /\ (\E i \in 1..PyLen(data) :
                   WellKinded(api_type, Items(data)[i]) /\ amended(Items(data)[i]) # {})
               => \A j \in 1..Len(out) : out[j] # NoMatch

C7_Witness ==
    /\ Displayed(JNull, "none") /\ api_type = "randomuser"
    /\ data = JArr(<<JObj([name |-> JObj([last |-> JStr("Doe")])])>>)
    /\ Len(out) = 1 /\ out[1].t = "block"
    /\ out[1].lines[2] = "Name: Doe" /\ out[1].lines[3] = "Email: N/A"

(***************************************************************************)
(* C8: get_count() returns the length of the stored record list, 0 when    *)
(* nothing is stored.  Stated as written; the code violates it on the      *)
(* store a raising fetch_data leaves behind.                               *)
(***************************************************************************)
C8_CountIsLength ==
    op.name = "count" => ret = Return(JNum(IF HasLen(data) THEN PyLen(data) ELSE 0))

(***************************************************************************)
(* C9: display_data with any predicate and a limit k >= 1 over non-empty   *)
(* stored records.  A record passes when the predicate accepts it and its  *)
(* rendering does not raise.  The loop examines the records up to the k-th *)
(* that passes (all of them when fewer pass) and none after it; of those   *)
(* it prints, in order, the block of each that passes, labelled with its   *)
(* index in the store, and a warning naming the index of each that raised; *)
(* a rejected record prints nothing; the "no records matched" notice ends  *)
(* the output exactly when no record passed.                               *)
(***************************************************************************)
C9_LimitCountsDisplayedOnly ==
    \A k \in 1..MaxLimit, f \in Filters :
       (Displayed(JNum(k), f) /\ HasLen(data) /\ PyLen(data) >= 1) =>
           LET items == Items(data)
               accepts(i) == IF f = "none" THEN True ELSE filter_func(f, items[i])
               raised(i) == \/ accepts(i).k = "raise"
                            \/ accepts(i) = True /\ i \notin Renderable
               pass == {i \in Renderable : accepts(i) = True}
               stop == IF Cardinality(pass) >= k THEN Nth(pass, k) ELSE Len(items)
               shown == {i \in 1..stop : i \in pass \/ raised(i)}
               evs == SelectSeq(out, IsBlockOrWarning)
           IN  /\ examined = stop
               /\ Len(evs) = Cardinality(shown)
               /\ \A j \in 1..Len(evs) :
                     LET i == Nth(shown, j)
                     IN  IF i \in pass
                         THEN evs[j] = Event("block", i, Render(api_type, i, items[i]).v)
                         ELSE evs[j].t = "warning" /\ evs[j].idx = i
               /\ Len(SelectSeq(out, IsBlock)) = Min(k, Cardinality(pass))
               /\ out = IF pass = {} THEN Append(evs, NoMatch) ELSE evs

C9_Witness ==
    /\ Displayed(JNum(1), "has_name") /\ IsRecordList(data) /\ PyLen(data) = 3
    /\ "name" \notin DOMAIN data.a[1].o
    /\ Len(out) = 1 /\ out[1].t = "block" /\ out[1].idx = 2
    /\ examined = 2

(***************************************************************************)
(* C10: a fetch_data that returns False leaves the stored records as they  *)
(* were, display_data and get_count never change them, and the store       *)
(* changes only in a fetch_data whose response passed the status check and *)
(* decoded.                                                                *)
(***************************************************************************)
C10_FailedFetchKeepsStore ==
    [][/\ (op'.name = "fetch" /\ ret' = False) => data' = data
       /\ op'.name \in {"display", "count"} => data' = data
       /\ data' # data =>
             /\ op'.name = "fetch" /\ op'.req.outcome = "response"
             /\ ~raise_for_status(op'.req.status)
             /\ op'.req.body # Undecodable]_vars

C10_Witness ==
    /\ op.name = "fetch" /\ ret = False /\ op.req.outcome = "response"
    /\ IsRecordList(data) /\ PyLen(data) >= 1

====
